---------------------------- MODULE Spec2Model ----------------------------
(***************************************************************************)
(* Conversation routing engine of AudibleMind: the query classifier, the   *)
(* clean memory manager (cache in front of CouchDB thread documents), the  *)
(* response generator (HyDE fan-out and direct contextual answers) and the *)
(* streamlined conversation manager that sequences them.                   *)
(*                                                                         *)
(* Conventions.                                                            *)
(*  - A query is the sequence of its lower-case words (the regexes are     *)
(*    compiled with IGNORECASE and every alternative is delimited by \b).  *)
(*    The vocabulary holds no word that contains a pattern word as an      *)
(*    apostrophe-separated piece, so matching word sequences equals        *)
(*    matching the text.                                                   *)
(*  - Scores are exact rationals with denominator Scale: 1.0 is Scale.     *)
(*  - Texts produced by a provider are records that keep which prompt      *)
(*    they answer, so that two generated texts can be told apart.          *)
(***************************************************************************)
EXTENDS Integers, Sequences, FiniteSets, TLC

VARIABLES db,            \* CouchDB threads database: thread id -> document or NoDoc
          memory_cache,  \* CleanMemoryManager.memory_cache, in dict insertion order
          nextMsgId,     \* number of message ids minted so far (uuid4 freshness)
          embedder,      \* QueryClassifier.embedder is not None
          openai_client, \* ResponseGenerator.openai_client is not None
          client_model,  \* the model each provider client sends: model_name / model
          req,           \* in-flight process_query calls, one per coroutine slot
          ret            \* the most recent completed store-level or pure call

vars == <<db, memory_cache, nextMsgId, embedder, openai_client, client_model, req, ret>>

(***************************************************************************)
(* Bounds                                                                  *)
(***************************************************************************)
MaxThreads == 2
MaxMsgs == 2
MaxStoreMsgs == 7
\* messages written in a run with failing writes and retention sweeps
MaxSweepMsgs == 3
\* messages stored in a run with concurrent calls
MaxConcMsgs == 3
MaxLimit == 3
MaxQueryLen == 2
MaxLines == 4
MaxSlots == 2

Threads == 1..MaxThreads
NoThread == 0
Slots == 1..MaxSlots

(***************************************************************************)
(* Query types (QueryType enum)                                            *)
(***************************************************************************)
NEW_TOPIC == "new_topic"
FOLLOW_UP == "follow_up"
CLARIFICATION == "clarification"
RELATED_TOPIC == "related_topic"
QueryType == {NEW_TOPIC, FOLLOW_UP, CLARIFICATION, RELATED_TOPIC}

(***************************************************************************)
(* Fixed-point scores                                                      *)
(***************************************************************************)
\* a common denominator of the pattern fractions k/4, k/5, k/11, of the
\* thousandths of the cosine similarity and of the 0.6/0.4 weighting
Scale == 4 * 5 * 11 * 500
Tenths(k) == (k * Scale) \div 10
similarity_threshold == (25 * Scale) \div 100     \* QueryClassifier(similarity_threshold=0.25)

\* cosine similarities the embedder may yield, in thousandths
SemScores == {-1000, -200, 0, 200, 216, 217, 400, 401, 500, 625, 626, 800, 1000}

Min(a, b) == IF a <= b THEN a ELSE b

(***************************************************************************)
(* Queries                                                                 *)
(***************************************************************************)
Vocab == {"unclear", "rephrase", "explain", "also", "it", "how", "define",
          "compare", "weather", "examples"}

QWhatIsML == <<"what", "is", "machine", "learning">>
QExamples == <<"can", "you", "give", "me", "examples">>
QDontUnderstand == <<"i", "don't", "understand">>
QTellMeMore == <<"tell", "me", "more", "about", "that">>
QWeather == <<"weather", "today">>

QDefineCompare == <<"define", "compare", "advantages">>

NamedQueries == {QWhatIsML, QExamples, QDontUnderstand, QTellMeMore, QWeather, QDefineCompare}

GenQueries == UNION {[1..n -> Vocab] : n \in 1..MaxQueryLen}

Queries == {q : q \in NamedQueries \cup GenQueries}

(***************************************************************************)
(* Linguistic patterns.  kind "search": some phrase occurs; "start": some  *)
(* phrase occurs at the start of the query (^); "unless": some phrase      *)
(* occurs with none of the banned words anywhere after it (negative        *)
(* lookahead (?!.*\b(..)\b)).                                              *)
(***************************************************************************)
P(phrases) == [kind |-> "search", phrases |-> phrases, banned |-> {}]
PStart(phrases) == [kind |-> "start", phrases |-> phrases, banned |-> {}]
PUnless(phrases, banned) == [kind |-> "unless", phrases |-> phrases, banned |-> banned]

follow_up_patterns == <<
    P({<<"can", "you">>, <<"could", "you">>, <<"would", "you">>, <<"will", "you">>}),
    P({<<"tell", "me", "more">>, <<"explain">>, <<"elaborate">>, <<"describe">>}),
    P({<<"give", "me">>, <<"show", "me">>, <<"provide">>, <<"list">>}),
    P({<<"what", "about">>, <<"how", "about">>, <<"what", "if">>}),
    P({<<"also">>, <<"additionally">>, <<"furthermore">>, <<"moreover">>}),
    P({<<"it">>, <<"this">>, <<"that">>, <<"they">>, <<"them">>, <<"those">>, <<"these">>}),
    P({<<"he">>, <<"she">>, <<"his">>, <<"her">>, <<"their">>}),
    PStart({<<"why">>, <<"how">>, <<"when">>, <<"where">>, <<"who">>, <<"which">>}),
    P({<<"example">>, <<"examples">>, <<"instance">>, <<"case">>, <<"sample">>}),
    P({<<"and">>, <<"but">>, <<"however">>, <<"although">>, <<"though">>}),
    P({<<"next">>, <<"then">>, <<"after">>, <<"before">>, <<"during">>}) >>

clarification_patterns == <<
    P({<<"what", "do", "you", "mean">>, <<"i", "don't", "understand">>, <<"unclear">>, <<"confusing">>}),
    P({<<"can", "you", "clarify">>, <<"explain", "better">>, <<"more", "detail">>, <<"be", "more", "specific">>}),
    P({<<"i'm", "confused">>, <<"not", "sure">>, <<"don't", "get", "it">>}),
    P({<<"rephrase">>, <<"say", "that", "again">>, <<"repeat">>}) >>

new_topic_indicators == <<
    P({<<"what", "is">>, <<"what", "are">>, <<"define">>, <<"definition">>}),
    PUnless({<<"tell", "me", "about">>, <<"explain">>, <<"describe">>}, {"it", "this", "that"}),
    PUnless({<<"how", "does">>, <<"how", "do">>, <<"how", "can">>, <<"how", "to">>}, {"it", "this", "that"}),
    P({<<"compare">>, <<"difference", "between">>, <<"versus">>, <<"vs">>}),
    P({<<"pros", "and", "cons">>, <<"advantages">>, <<"disadvantages">>}) >>

MatchAt(q, i, ph) ==
    /\ i + Len(ph) - 1 <= Len(q)
    /\ \A j \in 1..Len(ph) : q[i + j - 1] = ph[j]

\* re.Pattern.search(query)
PatternSearch(p, q) ==
    \E ph \in p.phrases : \E i \in 1..Len(q) :
        /\ MatchAt(q, i, ph)
        /\ p.kind = "start" => i = 1
        /\ p.kind = "unless" =>
              \A j \in (i + Len(ph))..Len(q) : q[j] \notin p.banned

\* _check_patterns scoring 1.0 as soon as one pattern matches
_check_patterns_any(q, patterns) ==
    IF \E k \in 1..Len(patterns) : PatternSearch(patterns[k], q) THEN Scale ELSE 0

\* matches / total_patterns, as a multiple of 1/Scale
_check_patterns(q, patterns) ==
    IF Len(patterns) > 0
    THEN (Cardinality({k \in 1..Len(patterns) : PatternSearch(patterns[k], q)}) * Scale)
             \div Len(patterns)
    ELSE 0

\* The three regex lists are fixed at construction, so the score of a query
\* under each list is a fixed table
clarification_score_of == [q \in Queries |-> _check_patterns(q, clarification_patterns)]
follow_up_score_of == [q \in Queries |-> _check_patterns(q, follow_up_patterns)]
new_topic_score_of == [q \in Queries |-> _check_patterns(q, new_topic_indicators)]

(***************************************************************************)
(* QueryClassifier                                                         *)
(***************************************************************************)
QueryClassificationResult(qt, conf, reasoning, use, weight) ==
    [query_type |-> qt, confidence |-> conf, reasoning |-> reasoning,
     should_use_context |-> use, context_weight |-> weight]

\* _calculate_semantic_similarity whose exception handler has no effect: the
\* score is the similarity also when encode has failed
_calculate_semantic_similarity_ignoring_failure(hasEmbedder, history, sem, encodeOk) ==
    IF ~hasEmbedder \/ history = <<>> THEN 0
    ELSE sem * (Scale \div 1000)

\* sem is the cosine similarity (thousandths) the embedder yields for this
\* query and the last six messages of the history, and encodeOk tells
\* whether embedder.encode returns; an exception of the
\* embedding or of the similarity computation is caught here and scores 0
_calculate_semantic_similarity(hasEmbedder, history, sem, encodeOk) ==
    IF ~hasEmbedder \/ history = <<>> THEN 0
    ELSE IF ~encodeOk THEN 0
    ELSE sem * (Scale \div 1000)

\* the decision table with the threshold test "combined >= threshold"
DecisionTable_threshold_inclusive(query, conversation_history, hasEmbedder, sem, fault) ==
    LET follow_up_score == follow_up_score_of[query]
        semantic_score == IF hasEmbedder
                          THEN _calculate_semantic_similarity(hasEmbedder, conversation_history, sem,
                                                              fault # "encode")
                          ELSE 0
        combined_follow_up_score == (follow_up_score * 6 + semantic_score * 4) \div 10
    IN  IF clarification_score_of[query] > Tenths(3)
        THEN QueryClassificationResult(CLARIFICATION, clarification_score_of[query],
                                       "clarification", TRUE, Tenths(9))
        ELSE IF combined_follow_up_score >= similarity_threshold
        THEN IF semantic_score > Tenths(4)
             THEN QueryClassificationResult(FOLLOW_UP, Min(combined_follow_up_score, Scale),
                                            "follow_up", TRUE, Tenths(8))
             ELSE QueryClassificationResult(RELATED_TOPIC, Min(combined_follow_up_score, Scale),
                                            "related_topic", TRUE, Tenths(6))
        ELSE IF new_topic_score_of[query] > Tenths(4)
        THEN QueryClassificationResult(NEW_TOPIC, new_topic_score_of[query], "new_topic", FALSE, 0)
        ELSE QueryClassificationResult(FOLLOW_UP, Tenths(3), "default_follow_up",
                                       TRUE, Tenths(5))

\* the decision table for a query with history and a thread id
DecisionTable(query, conversation_history, hasEmbedder, sem, fault) ==
    LET clarification_score == clarification_score_of[query]
        follow_up_score == follow_up_score_of[query]
        semantic_score == IF hasEmbedder
                          THEN _calculate_semantic_similarity(hasEmbedder, conversation_history, sem,
                                                              fault # "encode")
                          ELSE 0
        new_topic_score == new_topic_score_of[query]
        combined_follow_up_score == (follow_up_score * 6 + semantic_score * 4) \div 10
    IN  IF clarification_score > Tenths(3)
        THEN QueryClassificationResult(CLARIFICATION, clarification_score,
                                       "clarification", TRUE, Tenths(9))
        ELSE IF combined_follow_up_score > similarity_threshold
        THEN IF semantic_score > Tenths(4)
             THEN QueryClassificationResult(FOLLOW_UP, Min(combined_follow_up_score, Scale),
                                            "follow_up", TRUE, Tenths(8))
             ELSE QueryClassificationResult(RELATED_TOPIC, Min(combined_follow_up_score, Scale),
                                            "related_topic", TRUE, Tenths(6))
        ELSE IF new_topic_score > Tenths(4)
        THEN QueryClassificationResult(NEW_TOPIC, new_topic_score, "new_topic", FALSE, 0)
        ELSE QueryClassificationResult(FOLLOW_UP, Tenths(3), "default_follow_up",
                                       TRUE, Tenths(5))

\* What goes wrong inside one classify_query call: nothing, embedder.encode
\* raises, or pattern.search raises (a query that is not a string)
ClassifyFaults == {"none", "encode", "search"}

\* classify_query without the "or not thread_id" test
classify_query_history_only(query, conversation_history, thread_id, hasEmbedder, sem, fault) ==
    IF conversation_history = <<>>
    THEN QueryClassificationResult(NEW_TOPIC, Scale, "no_history", FALSE, 0)
    ELSE IF fault = "search"
    THEN QueryClassificationResult(NEW_TOPIC, Tenths(1), "classification_error", FALSE, 0)
    ELSE DecisionTable(query, conversation_history, hasEmbedder, sem, fault)

classify_query(query, conversation_history, thread_id, hasEmbedder, sem, fault) ==
    IF conversation_history = <<>> \/ thread_id = NoThread
    THEN QueryClassificationResult(NEW_TOPIC, Scale, "no_history", FALSE, 0)
    ELSE IF fault = "search"
    THEN QueryClassificationResult(NEW_TOPIC, Tenths(1), "classification_error", FALSE, 0)
    ELSE DecisionTable(query, conversation_history, hasEmbedder, sem, fault)

(***************************************************************************)
(* CleanMemoryManager                                                      *)
(***************************************************************************)
Users == {"u1", "u2"}
NoUser == "none"          \* no "user_id" key in the message metadata

\* cache_max_size is 100 in the source; the model keeps the eviction rule and
\* scales the size down so that eviction happens with MaxThreads threads
cache_max_size == 1

\* ConversationMessage
ConversationMessage(id, tid, q, resp, qt, ctx, uid) ==
    [message_id |-> id, thread_id |-> tid, user_query |-> q, ai_response |-> resp,
     query_type |-> qt, context_used |-> ctx, user_id |-> uid]

\* the dict appended to doc["messages"] (no thread_id key)
MessageDict(m) ==
    [message_id |-> m.message_id, user_query |-> m.user_query,
     ai_response |-> m.ai_response, query_type |-> m.query_type,
     context_used |-> m.context_used, user_id |-> m.user_id]

NoDoc == [exists |-> FALSE, messages |-> <<>>, message_count |-> 0, user_id |-> NoUser,
          created_at |-> 0]

\* lst[-k:] for k > 0
LastN(s, k) == IF k >= Len(s) THEN s ELSE SubSeq(s, Len(s) - k + 1, Len(s))

\* memory_cache is a dict: a sequence of <<key, value>> entries in insertion order
CacheKeys(c) == {c[i][1] : i \in 1..Len(c)}
CacheGet(c, t) == LET i == CHOOSE i \in 1..Len(c) : c[i][1] = t IN c[i][2]
CachePut(c, t, v) ==
    IF t \in CacheKeys(c)
    THEN [i \in 1..Len(c) |-> IF c[i][1] = t THEN <<t, v>> ELSE c[i]]
    ELSE Append(c, <<t, v>>)

cache_max_age_minutes == 30

_cleanup_cache(c) ==
    IF Len(c) > cache_max_size
    THEN SubSeq(c, Len(c) - cache_max_size + 1, Len(c))
    ELSE c

_load_messages_from_db(d, t, limit) ==
    IF ~d[t].exists
    THEN <<>>
    ELSE LET raw == IF limit > 0 THEN LastN(d[t].messages, limit) ELSE d[t].messages
         IN  [i \in 1..Len(raw) |->
                 ConversationMessage(raw[i].message_id, t, raw[i].user_query,
                                     raw[i].ai_response, raw[i].query_type,
                                     raw[i].context_used, raw[i].user_id)]

\* returns the messages and the cache after the call
get_conversation_history(c, d, t, limit) ==
    IF t \in CacheKeys(c) /\ CacheGet(c, t) # <<>>
    THEN [value |-> IF limit > 0 THEN LastN(CacheGet(c, t), limit) ELSE CacheGet(c, t),
          cache |-> c]
    ELSE LET messages == _load_messages_from_db(d, t, limit)
         IN  [value |-> messages,
              cache |-> IF messages # <<>> THEN CachePut(c, t, messages) ELSE c]

max_context_messages == 6

\* get_context_for_query with no window for RELATED_TOPIC
get_context_for_query_no_related(c, d, t, query_type) ==
    LET h == get_conversation_history(c, d, t, 20)
        all_messages == h.value
    IN  [value |-> IF all_messages = <<>> THEN <<>>
                   ELSE IF query_type = NEW_TOPIC THEN <<>>
                   ELSE IF query_type = CLARIFICATION THEN LastN(all_messages, 2)
                   ELSE IF query_type = FOLLOW_UP THEN LastN(all_messages, max_context_messages)
                   ELSE <<>>,
         cache |-> h.cache]

get_context_for_query(c, d, t, query_type) ==
    LET h == get_conversation_history(c, d, t, 20)
        all_messages == h.value
    IN  [value |-> IF all_messages = <<>> THEN <<>>
                   ELSE IF query_type = NEW_TOPIC THEN <<>>
                   ELSE IF query_type = CLARIFICATION THEN LastN(all_messages, 2)
                   ELSE IF query_type = FOLLOW_UP THEN LastN(all_messages, max_context_messages)
                   ELSE IF query_type = RELATED_TOPIC THEN LastN(all_messages, 4)
                   ELSE LastN(all_messages, max_context_messages),
         cache |-> h.cache]

\* _persist_message writing a document that holds the new message only
_persist_message_replacing(d, m) ==
    LET old == d[m.thread_id]
        doc == IF old.exists THEN old
               ELSE [NoDoc EXCEPT !.exists = TRUE, !.created_at = m.message_id]
        msgs == <<MessageDict(m)>>
    IN  [doc EXCEPT !.messages = msgs,
                    !.message_count = Len(msgs),
                    !.user_id = IF m.user_id # NoUser THEN m.user_id ELSE @]

\* the document threads_db.save receives
_persist_message(d, m) ==
    LET old == d[m.thread_id]
        doc == IF old.exists THEN old
               ELSE [NoDoc EXCEPT !.exists = TRUE, !.created_at = m.message_id]
        msgs == Append(doc.messages, MessageDict(m))
    IN  [doc EXCEPT !.messages = msgs,
                    !.message_count = Len(msgs),
                    !.user_id = IF m.user_id # NoUser THEN m.user_id ELSE @]

\* saveOk: threads_db.save succeeds; otherwise add_interaction raises after the
\* cache append and before _cleanup_cache
add_interaction(c, d, m, saveOk) ==
    LET t == m.thread_id
        c1 == IF t \in CacheKeys(c) THEN c ELSE CachePut(c, t, <<>>)
        c2 == CachePut(c1, t, Append(CacheGet(c1, t), m))
    IN  IF saveOk
        THEN [ok |-> TRUE, cache |-> _cleanup_cache(c2),
              db |-> [d EXCEPT ![t] = _persist_message(d, m)]]
        ELSE [ok |-> FALSE, cache |-> c2, db |-> d]

\* Timestamps are the logical time at which a message is made, which is the
\* order of the message ids; cutoff is now - max_age_days on that scale.
\* Returns the database after the sweep: only documents are deleted
cleanup_old_threads(d, cutoff) ==
    [t \in Threads |-> IF d[t].exists /\ d[t].created_at < cutoff THEN NoDoc ELSE d[t]]

thread_exists(c, d, t) ==
    IF t \in CacheKeys(c) THEN Len(CacheGet(c, t)) > 0
    ELSE d[t].exists /\ d[t].messages # <<>>

(***************************************************************************)
(* ResponseGenerator and the two provider connectors                       *)
(***************************************************************************)
question_keys == <<"query_A", "query_B", "query_C">>

\* provider arguments as the caller passes them, and str(provider).lower()
ProviderArgs == {"ollama", "OpenAI", "LLMProvider.OLLAMA", "bedrock"}
Lower(p) == CASE p = "ollama" -> "ollama"
              [] p = "OpenAI" -> "openai"
              [] p = "LLMProvider.OLLAMA" -> "llmprovider.ollama"
              [] OTHER -> p

NormalizeProvider(provider) ==
    LET provider_str == Lower(provider)
    IN  IF provider_str \in {"llmprovider.ollama", "ollama"} THEN "ollama"
        ELSE IF provider_str \in {"llmprovider.openai", "openai"} THEN "openai"
        ELSE provider_str

\* config.ollama.model and config.openai.model, with which the clients are
\* constructed
config_model == [ollama |-> "phi3:3.8b", openai |-> "gpt-4o"]
NoModel == "none"     \* model is None
RequestModels == {NoModel, "llama3", "gpt-4o-mini"}

\* A text: what kind of string it is and the call (response_key) it came from.
\*   llm               the provider's completion
\*   ollama_error      "Error generating summary: ..." returned by make_ollama_call
\*   apology_single    the fallback of _generate_single_response
\*   apology_branch    the per-branch fallback of generate_hyde_response
\*   apology_hyde      the whole-call fallback of generate_hyde_response
\*   apology_contextual the fallback of generate_contextual_response
Text(kind, key) == [kind |-> kind, key |-> key]
ApologyKinds == {"apology_single", "apology_branch", "apology_hyde", "apology_contextual"}

\* OllamaConnector.make_ollama_call: a failing chat call is caught and its
\* message returned as the result
make_ollama_call(key, callOk) ==
    IF callOk THEN [raised |-> FALSE, text |-> Text("llm", key)]
    ELSE [raised |-> FALSE, text |-> Text("ollama_error", key)]

\* OpenAIClient.generate / chat_completion: a failing request raises
OpenAIGenerate(key, callOk) ==
    IF callOk THEN [raised |-> FALSE, text |-> Text("llm", key)]
    ELSE [raised |-> TRUE, text |-> Text("none", key)]

\* callOk: the provider's request succeeds; hasOpenAI: self.openai_client is set
_generate_single_response(provider, hasOpenAI, response_key, callOk) ==
    LET provider_str == NormalizeProvider(provider)
        call == IF provider_str = "ollama" THEN make_ollama_call(response_key, callOk)
                ELSE IF provider_str = "openai" /\ hasOpenAI THEN OpenAIGenerate(response_key, callOk)
                ELSE [raised |-> TRUE, text |-> Text("none", response_key)]
    IN  IF call.raised
        THEN [response |-> Text("apology_single", response_key),
              metadata |-> [provider |-> provider_str, error |-> TRUE,
                            response_key |-> response_key],
              called |-> provider_str = "openai" /\ hasOpenAI]
        ELSE [response |-> call.text,
              metadata |-> [provider |-> provider_str, error |-> FALSE,
                            response_key |-> response_key],
              called |-> TRUE]

\* The lines of a reframing completion, after strip() and dropping blank lines.
\*   num       starts with "1.", "2." or "3." and has text after the first dot
\*   numempty  starts with "1.", "2." or "3." and has nothing after the dot
\*   long      any other line of more than 20 characters
\*   short     any other line of at most 20 characters
LineKinds == {"num", "numempty", "long", "short"}
HydeOutputs(n) == UNION {[1..k -> LineKinds] : k \in 0..n}

\* the lines of the text handed to _parse_hyde_questions: a completion has the
\* lines the model wrote; an error or apology string is one long line
LinesOf(text, lines) ==
    IF text.kind = "llm" THEN [i \in 1..Len(lines) |-> [kind |-> lines[i], src |-> "line", idx |-> i]]
    ELSE << [kind |-> "long", src |-> text.kind, idx |-> 1] >>

Question(src, idx) == [src |-> src, idx |-> idx]

RECURSIVE ParseLines(_, _)
ParseLines(lines, questions) ==
    IF lines = <<>> THEN questions
    ELSE LET line == Head(lines)
             q == Question(line.src, line.idx)
         IN  ParseLines(Tail(lines),
                 IF line.kind \in {"num", "numempty"}
                 THEN IF line.kind = "num" THEN Append(questions, q) ELSE questions
                 ELSE IF Len(questions) < 3 /\ line.kind = "long"
                      THEN Append(questions, q)
                      ELSE questions)

RECURSIVE PadQuestions(_)
PadQuestions(questions) ==
    IF Len(questions) < 3
    THEN PadQuestions(Append(questions, Question("variation", Len(questions) + 1)))
    ELSE questions

\* _parse_hyde_questions without the padding loop
_parse_hyde_questions_no_padding(lines) ==
    LET questions == ParseLines(lines, <<>>)
    IN  SubSeq(questions, 1, Min(3, Len(questions)))

_parse_hyde_questions(lines) ==
    LET questions == PadQuestions(ParseLines(lines, <<>>))
    IN  SubSeq(questions, 1, Min(3, Len(questions)))

\* the questions of the except branch of _generate_hyde_questions, which are
\* built from the query
FallbackQuestions == [i \in 1..3 |-> Question("fallback", i)]

\* out: the lines of the completion; callOk: the reframing request succeeds.
\* _generate_single_response and _parse_hyde_questions catch every exception,
\* so the except branch is not taken
_generate_hyde_questions(provider, hasOpenAI, out, callOk) ==
    LET result == _generate_single_response(provider, hasOpenAI, "hyde_questions", callOk)
    IN  _parse_hyde_questions(LinesOf(result.response, out))

\* the coroutines handed to asyncio.gather: zip(question_keys, hyde_questions)
ResponseTasks(hyde_questions) ==
    [i \in 1..Min(Len(question_keys), Len(hyde_questions)) |-> question_keys[i]]

\* results: what gather returned, one per task
CollectResponses(tasks, results) ==
    [responses |-> [k \in {tasks[i] : i \in 1..Len(tasks)} |->
                       LET i == CHOOSE i \in 1..Len(tasks) : tasks[i] = k
                       IN  results[i].response],
     response_metadata |-> [k \in {tasks[i] : i \in 1..Len(tasks)} |->
                       LET i == CHOOSE i \in 1..Len(tasks) : tasks[i] = k
                       IN  results[i].metadata]]

\* genOk[i]: the i-th generation request succeeds
generate_hyde_response(provider, hasOpenAI, out, hydeOk, genOk) ==
    LET hyde_questions == _generate_hyde_questions(provider, hasOpenAI, out, hydeOk)
        tasks == ResponseTasks(hyde_questions)
        results == [i \in 1..Len(tasks) |->
                       _generate_single_response(provider, hasOpenAI, tasks[i], genOk[i])]
        collected == CollectResponses(tasks, results)
    IN  [responses |-> collected.responses,
         metadata |-> [response_type |-> "hyde",
                       questions_generated |-> hyde_questions,
                       response_metadata |-> collected.response_metadata]]

generate_contextual_response(provider, hasOpenAI, conversation_context, callOk) ==
    LET result == _generate_single_response(provider, hasOpenAI, "contextual", callOk)
    IN  [response |-> result.response,
         metadata |-> [response_type |-> "contextual",
                       context_messages_used |-> Len(conversation_context),
                       provider |-> result.metadata.provider,
                       error |-> result.metadata.error]]

(***************************************************************************)
(* StreamlinedConversationManager.process_query                            *)
(*                                                                         *)
(* The provider calls are blocking calls inside coroutines, so the only    *)
(* point where process_query yields to the event loop is the               *)
(* asyncio.gather of the exploratory branch: the call runs atomically up   *)
(* to the gather, then each gathered task runs atomically, then the call   *)
(* resumes and runs to its return.  The direct branch never yields.        *)
(***************************************************************************)
NoText == Text("none", "none")
NoClassification == QueryClassificationResult(NEW_TOPIC, 0, "none", FALSE, 0)
NoResult == [error |-> FALSE, thread_id |-> NoThread, query |-> <<>>, query_type |-> NEW_TOPIC,
             was_continuation |-> FALSE, context_messages_used |-> 0,
             classification_confidence |-> 0, classification_reasoning |-> "none",
             hyde_responses |-> <<>>, has_hyde |-> FALSE,
             direct_response |-> NoText, has_direct |-> FALSE, message_id |-> 0]

IdleReq == [pc |-> "idle", query |-> <<>>, thread_id |-> NoThread, given_thread |-> NoThread,
            user_id |-> NoUser, provider |-> "ollama",
            had_history |-> FALSE, classification |-> NoClassification,
            context_messages |-> <<>>, context_retrieved |-> FALSE,
            tasks |-> <<>>, results |-> <<>>,
            reframing_calls |-> 0,   \* _generate_single_response calls for "hyde_questions"
            generation_calls |-> 0,  \* _generate_single_response calls for a response
            running |-> "none",  \* key of the gathered task whose provider call is in flight
            caught |-> "none",   \* the exception the except branch has caught
            result |-> NoResult]

\* thread ids some part of the system already knows
UsedThreads == {t \in Threads : db[t].exists} \cup CacheKeys(memory_cache)
                  \cup {req[s].thread_id : s \in Slots}

\* Thread ids are opaque strings: the id _generate_thread_id mints, and an id
\* of the caller's that no thread has, is the least id not in use
FreshThread ==
    LET unused == Threads \ UsedThreads
    IN  IF unused = {} THEN NoThread ELSE CHOOSE t \in unused : \A u \in unused : t <= u

\* step 4 run whatever the classification says
RetrieveContext_always(classification, c, d, thread_id) ==
    LET ctx == get_context_for_query(c, d, thread_id, classification.query_type)
    IN  [value |-> ctx.value, cache |-> ctx.cache, retrieved |-> TRUE]

\* step 4: context is fetched only if classification.should_use_context
RetrieveContext(classification, c, d, thread_id) ==
    IF classification.should_use_context
    THEN LET ctx == get_context_for_query(c, d, thread_id, classification.query_type)
         IN  [value |-> ctx.value, cache |-> ctx.cache, retrieved |-> TRUE]
    ELSE [value |-> <<>>, cache |-> c, retrieved |-> FALSE]

\* step 6 storing another variant than query_A
chosen_response_other_variant(query_type, response_data) ==
    IF query_type = NEW_TOPIC THEN response_data.responses["query_B"]
    ELSE response_data.response

\* step 6: the response stored in memory
chosen_response(query_type, response_data) ==
    IF query_type = NEW_TOPIC THEN response_data.responses["query_A"]
    ELSE response_data.response

\* the dict returned from the except branch
ErrorResult(r) ==
    [NoResult EXCEPT !.error = TRUE, !.thread_id = r.thread_id, !.query = r.query,
                     !.classification_reasoning = "processing_failed",
                     !.direct_response = Text("apology_process", "process_query"),
                     !.has_direct = TRUE]

\* steps 8: the dict returned on success
SuccessResult(r, response_data, message) ==
    LET c == r.classification
        base == [NoResult EXCEPT !.thread_id = r.thread_id, !.query = r.query,
                     !.query_type = c.query_type,
                     !.was_continuation = c.should_use_context,
                     !.context_messages_used = Len(r.context_messages),
                     !.classification_confidence = c.confidence,
                     !.classification_reasoning = c.reasoning,
                     !.message_id = message.message_id]
    IN  IF c.query_type = NEW_TOPIC
        THEN [base EXCEPT !.hyde_responses = response_data.responses, !.has_hyde = TRUE]
        ELSE [base EXCEPT !.direct_response = response_data.response, !.has_direct = TRUE]

\* steps 6 to 8 for the call in slot s, whose request record is r
Complete(s, r, cache, response_data, saveOk) ==
    LET qt == r.classification.query_type
        keyError == qt = NEW_TOPIC /\ "query_A" \notin DOMAIN response_data.responses
        message == ConversationMessage(nextMsgId + 1, r.thread_id, r.query,
                       chosen_response(qt, response_data), qt,
                       Len(r.context_messages), r.user_id)
        added == add_interaction(cache, db, message, saveOk)
    IN  IF keyError
        THEN /\ req' = [req EXCEPT ![s] = [r EXCEPT !.pc = "responded", !.caught = "KeyError",
                                                  !.result = ErrorResult(r)]]
             /\ memory_cache' = cache
             /\ UNCHANGED <<db, nextMsgId>>
        ELSE /\ memory_cache' = added.cache
             /\ db' = added.db
             /\ nextMsgId' = nextMsgId + 1
             /\ req' = [req EXCEPT ![s] = [r EXCEPT !.pc = "responded",
                          !.caught = IF added.ok THEN "none" ELSE "save",
                          !.result = IF added.ok THEN SuccessResult(r, response_data, message)
                                     ELSE ErrorResult(r)]]

\* _generate_single_response has no await: its provider call is a blocking
\* call on the event loop thread, so while it is in flight no coroutine of
\* the process runs
LoopFree == \A s \in Slots : req[s].running = "none"

InFlight == {s \in Slots : req[s].pc = "gathering"}

\* steps 1 to 5, up to the first point where the call yields or returns
ProcessQueryBegin(s, query, given, user_id, provider, sem, fault, out, callOk, saveOk) ==
    /\ req[s].pc = "idle"
    /\ LoopFree
    /\ \E thread_id \in Threads :
        /\ IF given # NoThread THEN thread_id = given ELSE thread_id = FreshThread
        /\ thread_id \in UsedThreads \cup {FreshThread}
        /\ LET h == get_conversation_history(memory_cache, db, thread_id, 10)
               conversation_history == h.value
               classification == classify_query(query, conversation_history,
                                     IF conversation_history # <<>> THEN thread_id ELSE NoThread,
                                     embedder, sem, fault)
               ctx == RetrieveContext(classification, h.cache, db, thread_id)
               r == [IdleReq EXCEPT !.query = query, !.thread_id = thread_id,
                                    !.given_thread = given,
                                    !.user_id = user_id, !.provider = provider,
                                    !.had_history = conversation_history # <<>>,
                                    !.classification = classification,
                                    !.context_messages = ctx.value,
                                    !.context_retrieved = ctx.retrieved]
           IN  IF classification.query_type = NEW_TOPIC
               THEN LET hyde_questions == _generate_hyde_questions(provider, openai_client, out, callOk)
                    IN  /\ req' = [req EXCEPT ![s] = [r EXCEPT !.pc = "gathering",
                                       !.reframing_calls = 1,
                                       !.tasks = ResponseTasks(hyde_questions)]]
                        /\ memory_cache' = ctx.cache
                        /\ UNCHANGED <<db, nextMsgId>>
               ELSE Complete(s, [r EXCEPT !.generation_calls = 1], ctx.cache,
                             [responses |-> <<>>,
                              response |-> generate_contextual_response(provider, openai_client,
                                              ctx.value, callOk).response],
                             saveOk)
    /\ ret' = [op |-> "none"]
    /\ UNCHANGED <<embedder, openai_client, client_model>>

\* a call arrives while the run has room for the message it will store
ProcessQueryStart(s, query, given, user_id, provider, sem, fault, out, callOk, saveOk) ==
    /\ nextMsgId + Cardinality(InFlight) < MaxMsgs
    /\ ProcessQueryBegin(s, query, given, user_id, provider, sem, fault, out, callOk, saveOk)

\* the event loop starts the next gathered _generate_single_response task of
\* slot s, which issues its provider call
StartTask(s) ==
    /\ req[s].pc = "gathering"
    /\ LoopFree
    /\ Len(req[s].results) < Len(req[s].tasks)
    /\ req' = [req EXCEPT ![s].running = req[s].tasks[Len(req[s].results) + 1],
                          ![s].generation_calls = @ + 1]
    /\ UNCHANGED <<db, memory_cache, nextMsgId, embedder, openai_client, client_model, ret>>

\* a task whose provider call fails is put back and issued again
FinishTask_retry_on_failure(s, callOk) ==
    /\ req[s].pc = "gathering"
    /\ req[s].running # "none"
    /\ LET result == _generate_single_response(req[s].provider, openai_client,
                                               req[s].running, callOk)
       IN  req' = [req EXCEPT ![s].results = IF callOk THEN Append(@, result) ELSE @,
                              ![s].running = "none"]
    /\ UNCHANGED <<db, memory_cache, nextMsgId, embedder, openai_client, client_model, ret>>

\* the provider call in flight returns or raises and the task completes
FinishTask(s, callOk) ==
    /\ req[s].pc = "gathering"
    /\ req[s].running # "none"
    /\ LET result == _generate_single_response(req[s].provider, openai_client,
                                               req[s].running, callOk)
       IN  req' = [req EXCEPT ![s].results = Append(@, result), ![s].running = "none"]
    /\ UNCHANGED <<db, memory_cache, nextMsgId, embedder, openai_client, client_model, ret>>

\* the gather has completed: the rest of generate_hyde_response and steps 6 to 8
ProcessQueryResume(s, saveOk) ==
    /\ req[s].pc = "gathering"
    /\ LoopFree
    /\ Len(req[s].results) = Len(req[s].tasks)
    /\ Complete(s, req[s], memory_cache,
                [responses |-> CollectResponses(req[s].tasks, req[s].results).responses,
                 response |-> NoText],
                saveOk)
    /\ UNCHANGED <<embedder, openai_client, client_model, ret>>

\* the caller takes the returned dict
Return(s) ==
    /\ req[s].pc = "responded"
    /\ req' = [req EXCEPT ![s] = IdleReq]
    /\ UNCHANGED <<db, memory_cache, nextMsgId, embedder, openai_client, client_model, ret>>

\* the process is started again: the module-level singletons are constructed
\* anew (empty cache, no call in flight) over the same database
Restart ==
    /\ memory_cache' = <<>>
    /\ req' = [s \in Slots |-> IdleReq]
    /\ ret' = [op |-> "none"]
    /\ client_model' = config_model
    /\ UNCHANGED <<db, nextMsgId, embedder, openai_client>>

Init ==
    /\ db = [t \in Threads |-> NoDoc]
    /\ memory_cache = <<>>
    /\ nextMsgId = 0
    /\ embedder = TRUE          \* a missing embedder scores 0, which SpecSem holds
    /\ openai_client = FALSE    \* an OpenAI request then fails like any failing request
    /\ client_model = config_model
    /\ req = [s \in Slots |-> IdleReq]
    /\ ret = [op |-> "none"]

\* Inputs of the end-to-end specification: calls arrive one at a time
SpecSlots == {1}
SpecQueries == {QExamples, QDontUnderstand, QDefineCompare}
SpecUsers == {"u1"}
SpecProviders == {"ollama", "OpenAI"}
SpecSem == {0, 300, 800}
SpecFaults == {"none", "encode"}  \* process_query is called with a string
SpecOutputs == {<<>>, <<"num", "num", "num">>}

Next ==
    \/ \E s \in SpecSlots, query \in SpecQueries, given \in Threads \cup {NoThread},
          user_id \in SpecUsers, provider \in SpecProviders, sem \in SpecSem,
          fault \in SpecFaults,
          out \in SpecOutputs, callOk \in BOOLEAN, saveOk \in BOOLEAN :
          ProcessQueryStart(s, query, given, user_id, provider, sem, fault, out, callOk, saveOk)
    \/ \E s \in SpecSlots : StartTask(s)
    \/ \E s \in SpecSlots, callOk \in BOOLEAN : FinishTask(s, callOk)
    \/ \E s \in SpecSlots, saveOk \in BOOLEAN : ProcessQueryResume(s, saveOk)
    \/ \E s \in SpecSlots : Return(s)

Spec == Init /\ [][Next]_vars

\* Scheduling: the event loop runs every task that is ready, a provider call
\* in flight returns or raises, and a coroutine whose gather is complete is
\* resumed
Fairness ==
    /\ \A s \in SpecSlots : WF_vars(StartTask(s))
    /\ \A s \in SpecSlots : WF_vars(\E callOk \in BOOLEAN : FinishTask(s, callOk))
    /\ \A s \in SpecSlots : WF_vars(\E saveOk \in BOOLEAN : ProcessQueryResume(s, saveOk))

\* Whether a call ends does not depend on the words of its query: the fair
\* specification takes one query, which is NEW_TOPIC on an empty thread and
\* a continuation on a thread with history
LiveQueries == {QExamples}

NextLive ==
    \/ \E s \in SpecSlots, query \in LiveQueries, given \in Threads \cup {NoThread},
          user_id \in SpecUsers, provider \in SpecProviders, sem \in SpecSem,
          fault \in SpecFaults,
          out \in SpecOutputs, callOk \in BOOLEAN, saveOk \in BOOLEAN :
          ProcessQueryStart(s, query, given, user_id, provider, sem, fault, out, callOk, saveOk)
    \/ \E s \in SpecSlots : StartTask(s)
    \/ \E s \in SpecSlots, callOk \in BOOLEAN : FinishTask(s, callOk)
    \/ \E s \in SpecSlots, saveOk \in BOOLEAN : ProcessQueryResume(s, saveOk)
    \/ \E s \in SpecSlots : Return(s)

SpecLive == Init /\ [][NextLive]_vars /\ Fairness

\* Calls of several authenticated users, one call at a time; any user may
\* name any thread id in a request
OwnerUsers == {"u1", "u2"}

NextOwner ==
    \/ \E s \in SpecSlots, given \in Threads \cup {NoThread}, user_id \in OwnerUsers,
          out \in SpecOutputs, saveOk \in BOOLEAN :
          ProcessQueryStart(s, QExamples, given, user_id, "ollama", 0, "none", out,
                            TRUE, saveOk)
    \/ \E s \in SpecSlots : StartTask(s)
    \/ \E s \in SpecSlots : FinishTask(s, TRUE)
    \/ \E s \in SpecSlots, saveOk \in BOOLEAN : ProcessQueryResume(s, saveOk)
    \/ \E s \in SpecSlots : Return(s)

SpecOwner == Init /\ [][NextOwner]_vars

\* Concurrent calls: two callers send calls for one thread, so that a call
\* arrives while the other one is suspended in its gather.  The gathered
\* provider calls succeed; the reframing call, the direct call and the save
\* may fail.
ConcSlots == {1, 2}
ConcThreads == {1}
ConcQueries == {QExamples, QDefineCompare}
ConcOutputs == {<<"num", "num", "num">>}

NextConc ==
    \/ \E s \in ConcSlots, query \in ConcQueries, given \in ConcThreads,
          user_id \in SpecUsers, out \in ConcOutputs, callOk \in BOOLEAN,
          saveOk \in BOOLEAN :
          /\ nextMsgId + Cardinality(InFlight) < MaxConcMsgs
          /\ ProcessQueryBegin(s, query, given, user_id, "ollama", 0, "none", out,
                               callOk, saveOk)
    \/ \E s \in ConcSlots : StartTask(s)
    \/ \E s \in ConcSlots : FinishTask(s, TRUE)
    \/ \E s \in ConcSlots, saveOk \in BOOLEAN : ProcessQueryResume(s, saveOk)
    \/ \E s \in ConcSlots : Return(s)

SpecConc == Init /\ [][NextConc]_vars

(***************************************************************************)
(* The memory store on its own: CleanMemoryManager's public methods called *)
(* in any order, with restarts of the process in between.  Durable writes  *)
(* succeed in this specification.                                          *)
(***************************************************************************)
StoreQuery == QWhatIsML
StoreResponse == Text("llm", "contextual")
StoreLimits == (1..MaxLimit) \cup {10, 20}

AddInteraction(t, query_type, saveOk) ==
    /\ nextMsgId < MaxStoreMsgs
    /\ LET message == ConversationMessage(nextMsgId + 1, t, StoreQuery, StoreResponse,
                                          query_type, 0, NoUser)
           added == add_interaction(memory_cache, db, message, saveOk)
       IN  /\ memory_cache' = added.cache
           /\ db' = added.db
           /\ ret' = [op |-> "add_interaction", thread |-> t, ok |-> added.ok,
                      value |-> message]
    /\ nextMsgId' = nextMsgId + 1
    /\ UNCHANGED <<embedder, openai_client, client_model, req>>

GetConversationHistory(t, limit) ==
    /\ LET h == get_conversation_history(memory_cache, db, t, limit)
       IN  /\ memory_cache' = h.cache
           /\ ret' = [op |-> "get_conversation_history", thread |-> t, limit |-> limit,
                      value |-> h.value]
    /\ UNCHANGED <<db, nextMsgId, embedder, openai_client, client_model, req>>

GetContextForQuery(t, query_type) ==
    /\ LET c == get_context_for_query(memory_cache, db, t, query_type)
       IN  /\ memory_cache' = c.cache
           /\ ret' = [op |-> "get_context_for_query", thread |-> t,
                      query_type |-> query_type, value |-> c.value]
    /\ UNCHANGED <<db, nextMsgId, embedder, openai_client, client_model, req>>

\* get_thread_summary reads the history with limit=1 and summarises what it got
GetThreadSummary(t) ==
    /\ LET h == get_conversation_history(memory_cache, db, t, 1)
           messages == h.value
       IN  /\ memory_cache' = h.cache
           /\ ret' = [op |-> "get_thread_summary", thread |-> t,
                      found |-> messages # <<>>,
                      message_count |-> Len(messages)]
    /\ UNCHANGED <<db, nextMsgId, embedder, openai_client, client_model, req>>

\* The read made when the thread's cache entry, if there is one, was put in
\* the cache `minutes` ago.  The manager keeps no timestamp with a cache
\* entry and never reads cache_max_age_minutes, so the result is that of
\* the plain read.
GetConversationHistoryLater(t, limit, minutes) ==
    /\ LET h == get_conversation_history(memory_cache, db, t, limit)
       IN  /\ memory_cache' = h.cache
           /\ ret' = [op |-> "get_conversation_history", thread |-> t, limit |-> limit,
                      minutes |-> minutes, value |-> h.value]
    /\ UNCHANGED <<db, nextMsgId, embedder, openai_client, client_model, req>>

ThreadExists(t) ==
    /\ ret' = [op |-> "thread_exists", thread |-> t,
               value |-> thread_exists(memory_cache, db, t)]
    /\ UNCHANGED <<db, memory_cache, nextMsgId, embedder, openai_client, client_model, req>>

CleanupOldThreads(cutoff) ==
    /\ db' = cleanup_old_threads(db, cutoff)
    /\ ret' = [op |-> "cleanup_old_threads", cutoff |-> cutoff]
    /\ UNCHANGED <<memory_cache, nextMsgId, embedder, openai_client, client_model, req>>

InitStore ==
    /\ db = [t \in Threads |-> NoDoc]
    /\ memory_cache = <<>>
    /\ nextMsgId = 0
    /\ embedder = TRUE
    /\ openai_client = FALSE
    /\ client_model = config_model
    /\ req = [s \in Slots |-> IdleReq]
    /\ ret = [op |-> "none"]

NextStore ==
    \/ \E t \in Threads : AddInteraction(t, FOLLOW_UP, TRUE)
    \/ \E t \in Threads, limit \in StoreLimits : GetConversationHistory(t, limit)
    \/ \E t \in Threads, query_type \in QueryType : GetContextForQuery(t, query_type)
    \/ \E t \in Threads : GetThreadSummary(t)
    \/ Restart

SpecStore == InitStore /\ [][NextStore]_vars

(***************************************************************************)
(* The memory manager with failing durable writes and the retention sweep: *)
(* writes that may fail, sweeps at any cutoff, reads and restarts.         *)
(***************************************************************************)
\* ages of a cache entry at the time of a read: fresh, and past the expiry
CacheAges == {0, cache_max_age_minutes + 1}

NextSweep ==
    \/ \E t \in Threads, saveOk \in BOOLEAN :
          nextMsgId < MaxSweepMsgs /\ AddInteraction(t, FOLLOW_UP, saveOk)
    \/ \E cutoff \in 1..MaxSweepMsgs : CleanupOldThreads(cutoff)
    \/ \E t \in Threads : ThreadExists(t)
    \/ \E t \in Threads, limit \in StoreLimits, minutes \in CacheAges :
          GetConversationHistoryLater(t, limit, minutes)
    \/ Restart

SpecSweep == InitStore /\ [][NextSweep]_vars

(***************************************************************************)
(* classify_query as a function of its arguments                           *)
(***************************************************************************)
\* a history of n earlier exchanges
HistoryOf(n) == [i \in 1..n |-> ConversationMessage(i, 1, StoreQuery, StoreResponse,
                                                    NEW_TOPIC, 0, NoUser)]
ClassifyHistories == {HistoryOf(n) : n \in 0..2}

\* the arguments of a pending call are drawn in the initial state
ClassifyCalls ==
    {[op |-> "call", query |-> query, history |-> conversation_history,
      thread_id |-> thread_id, sem |-> sem, fault |-> fault] :
        query \in Queries, conversation_history \in ClassifyHistories,
        thread_id \in {NoThread, 1}, sem \in SemScores, fault \in ClassifyFaults}

ClassifyQuery ==
    /\ ret.op = "call"
    /\ ret' = [op |-> "classify_query", query |-> ret.query,
               history |-> ret.history, thread_id |-> ret.thread_id, sem |-> ret.sem,
               fault |-> ret.fault,
               value |-> classify_query(ret.query, ret.history, ret.thread_id,
                                        embedder, ret.sem, ret.fault)]
    /\ UNCHANGED <<db, memory_cache, nextMsgId, embedder, openai_client, client_model, req>>

\* is_follow_up_query passes the query and the history, and no thread id
is_follow_up_query(query, conversation_history, hasEmbedder, sem, fault) ==
    LET result == classify_query(query, conversation_history, NoThread, hasEmbedder, sem, fault)
    IN  result.query_type \in {FOLLOW_UP, CLARIFICATION, RELATED_TOPIC}

IsFollowUpQuery ==
    /\ ret.op = "call"
    /\ ret' = [op |-> "is_follow_up_query", query |-> ret.query,
               history |-> ret.history, sem |-> ret.sem, fault |-> ret.fault,
               value |-> is_follow_up_query(ret.query, ret.history, embedder, ret.sem,
                                            ret.fault)]
    /\ UNCHANGED <<db, memory_cache, nextMsgId, embedder, openai_client, client_model, req>>

InitClassify ==
    /\ db = [t \in Threads |-> NoDoc]
    /\ memory_cache = <<>>
    /\ nextMsgId = 0
    /\ embedder \in BOOLEAN
    /\ openai_client = FALSE
    /\ client_model = config_model
    /\ req = [s \in Slots |-> IdleReq]
    /\ ret \in ClassifyCalls

NextClassify == ClassifyQuery \/ IsFollowUpQuery

SpecClassify == InitClassify /\ [][NextClassify]_vars

(***************************************************************************)
(* _generate_single_response with the model argument: which model the      *)
(* provider client sends and which model the metadata records              *)
(***************************************************************************)
\* the client attributes after the call: a request that names a model
\* assigns it to the client object it uses
ClientModelAfter(provider, hasOpenAI, model, clients) ==
    LET provider_str == NormalizeProvider(provider)
    IN  IF provider_str = "ollama" /\ model # NoModel
        THEN [clients EXCEPT !.ollama = model]
        ELSE IF provider_str = "openai" /\ hasOpenAI /\ model # NoModel
        THEN [clients EXCEPT !.openai = model]
        ELSE clients

\* metadata["model"] of the dict returned without an exception
MetadataModel(provider_str, model) ==
    IF model # NoModel THEN model ELSE config_model[provider_str]

GenerateSingleResponse(provider, model, response_key, callOk) ==
    LET provider_str == NormalizeProvider(provider)
        result == _generate_single_response(provider, openai_client, response_key, callOk)
        after == ClientModelAfter(provider, openai_client, model, client_model)
    IN  /\ client_model' = after
        /\ ret' = [op |-> "_generate_single_response", provider |-> provider_str,
                   model |-> model, response_key |-> response_key,
                   called |-> result.called,
                   used_model |-> IF result.called THEN after[provider_str] ELSE NoModel,
                   error |-> result.metadata.error,
                   metadata_model |-> IF result.metadata.error THEN NoModel
                                      ELSE MetadataModel(provider_str, model)]
        /\ UNCHANGED <<db, memory_cache, nextMsgId, embedder, openai_client, req>>

InitModel ==
    /\ db = [t \in Threads |-> NoDoc]
    /\ memory_cache = <<>>
    /\ nextMsgId = 0
    /\ embedder = TRUE
    /\ openai_client \in BOOLEAN
    /\ client_model = config_model
    /\ req = [s \in Slots |-> IdleReq]
    /\ ret = [op |-> "none"]

NextModel ==
    \E provider \in ProviderArgs, model \in RequestModels,
       response_key \in {"hyde_questions", "query_A", "contextual"}, callOk \in BOOLEAN :
        GenerateSingleResponse(provider, model, response_key, callOk)

SpecModel == InitModel /\ [][NextModel]_vars

(***************************************************************************)
(* analyze_query_relevance of the context manager as a function of the     *)
(* query, the thread's chat memory and what the embedder yields            *)
(***************************************************************************)
\* scores (0 to 10) are kept in units of 1/RelevanceScale
RelevanceScale == 6000
continuation_threshold == 4 * RelevanceScale   \* ConversationContextManager(continuation_threshold=4.0)

Words(text) == {text[i] : i \in 1..Len(text)}

RelevanceResult(score, is_continuation, reasoning) ==
    [score |-> score, is_continuation |-> is_continuation, reasoning |-> reasoning]

\* 70% semantic + 30% word overlap, scaled to 0-10
CombinedScore(new_query, messages, sem, encodeOk) ==
    LET query_words == Words(new_query)
        context_words == UNION {Words(messages[i]) : i \in 1..Len(messages)}
        overlap == Cardinality(query_words \cap context_words)
        word_overlap_score ==
            IF context_words # {} /\ query_words # {}
            THEN Min((3 * RelevanceScale * overlap) \div Cardinality(query_words),
                     3 * RelevanceScale)
            ELSE 0
        semantic_score == IF encodeOk THEN sem * ((7 * RelevanceScale) \div 1000) ELSE 0
    IN  semantic_score + word_overlap_score

\* analyze_query_relevance deciding a continuation at any score of 0 or more
analyze_query_relevance_any_score(new_query, thread_id, messages, sem, encodeOk, memoryOk) ==
    LET best_score == IF thread_id # NoThread /\ memoryOk /\ messages # <<>>
                      THEN CombinedScore(new_query, messages, sem, encodeOk)
                      ELSE 0
        is_continuation == best_score >= 0
    IN  RelevanceResult(best_score, is_continuation,
                        IF is_continuation THEN "related_context" ELSE "new_independent_query")

\* messages is the chat memory of the thread (read only when a thread id is
\* given); memoryOk is FALSE when get_memory_for_thread raises
analyze_query_relevance(new_query, thread_id, messages, sem, encodeOk, memoryOk) ==
    LET best_score == IF thread_id # NoThread /\ memoryOk /\ messages # <<>>
                      THEN CombinedScore(new_query, messages, sem, encodeOk)
                      ELSE 0
        is_continuation == best_score >= continuation_threshold
    IN  RelevanceResult(best_score, is_continuation,
                        IF is_continuation THEN "related_context" ELSE "new_independent_query")

RelevanceSem == {-1000, 0, 500, 1000}
ChatMemories == {<<>>, <<QWhatIsML>>, <<QWhatIsML, <<"machine", "learning", "examples">>>>}

RelevanceCalls ==
    {[op |-> "call_relevance", query |-> query, thread_id |-> thread_id,
      messages |-> messages, sem |-> sem, encodeOk |-> encodeOk, memoryOk |-> memoryOk] :
        query \in Queries \cup {<<>>}, thread_id \in {NoThread, 1},
        messages \in ChatMemories, sem \in RelevanceSem, encodeOk \in BOOLEAN,
        memoryOk \in BOOLEAN}

AnalyzeQueryRelevance ==
    /\ ret.op = "call_relevance"
    /\ ret' = [op |-> "analyze_query_relevance", query |-> ret.query,
               thread_id |-> ret.thread_id, messages |-> ret.messages, sem |-> ret.sem,
               encodeOk |-> ret.encodeOk, memoryOk |-> ret.memoryOk,
               value |-> analyze_query_relevance(ret.query, ret.thread_id, ret.messages,
                                                 ret.sem, ret.encodeOk, ret.memoryOk)]
    /\ UNCHANGED <<db, memory_cache, nextMsgId, embedder, openai_client, client_model, req>>

InitRelevance ==
    /\ db = [t \in Threads |-> NoDoc]
    /\ memory_cache = <<>>
    /\ nextMsgId = 0
    /\ embedder = TRUE
    /\ openai_client = FALSE
    /\ client_model = config_model
    /\ req = [s \in Slots |-> IdleReq]
    /\ ret \in RelevanceCalls

NextRelevance == AnalyzeQueryRelevance

SpecRelevance == InitRelevance /\ [][NextRelevance]_vars

(***************************************************************************)
(* generate_hyde_response as a function of what the provider does          *)
(***************************************************************************)
HydeCalls ==
    {[op |-> "call", provider |-> provider, out |-> out, hydeOk |-> hydeOk, genOk |-> genOk] :
        provider \in ProviderArgs, out \in HydeOutputs(MaxLines), hydeOk \in BOOLEAN,
        genOk \in [1..3 -> BOOLEAN]}

GenerateHydeResponse ==
    /\ ret.op = "call"
    /\ ret' = [op |-> "generate_hyde_response", provider |-> ret.provider, out |-> ret.out,
               hydeOk |-> ret.hydeOk, genOk |-> ret.genOk,
               value |-> generate_hyde_response(ret.provider, openai_client, ret.out,
                                                ret.hydeOk, ret.genOk)]
    /\ UNCHANGED <<db, memory_cache, nextMsgId, embedder, openai_client, client_model, req>>

\* the arguments of a pending generate_contextual_response call
ContextualCalls ==
    {[op |-> "call_contextual", provider |-> provider,
      conversation_context |-> conversation_context, callOk |-> callOk] :
        provider \in ProviderArgs, conversation_context \in ClassifyHistories,
        callOk \in BOOLEAN}

GenerateContextualResponse ==
    /\ ret.op = "call_contextual"
    /\ ret' = [op |-> "generate_contextual_response", provider |-> ret.provider,
               conversation_context |-> ret.conversation_context, callOk |-> ret.callOk,
               value |-> generate_contextual_response(ret.provider, openai_client,
                                                      ret.conversation_context, ret.callOk)]
    /\ UNCHANGED <<db, memory_cache, nextMsgId, embedder, openai_client, client_model, req>>

\* Temperatures, in tenths.  ChatRequest accepts 0.0 to 2.0.
temperature_min == 0
temperature_max == 20
Temperatures == temperature_min..temperature_max

\* the temperature arguments of the provider calls of one generate_hyde_response
\* call, in the order the calls are made: the reframing call, then one call per
\* question.  A provider that cannot be used gets no call.
hyde_temperatures(provider, hasOpenAI, temperature, out, hydeOk) ==
    LET hyde_questions == _generate_hyde_questions(provider, hasOpenAI, out, hydeOk)
        tasks == ResponseTasks(hyde_questions)
        called == _generate_single_response(provider, hasOpenAI, "hyde_questions", hydeOk).called
    IN  IF called
        THEN <<temperature + 1>> \o [i \in 1..Len(tasks) |-> temperature + (i - 1)]
        ELSE <<>>

TemperatureCalls ==
    {[op |-> "call_temperature", provider |-> provider, temperature |-> temperature,
      out |-> out, hydeOk |-> hydeOk] :
        provider \in ProviderArgs, temperature \in Temperatures,
        out \in HydeOutputs(1), hydeOk \in BOOLEAN}

GenerateHydeTemperatures ==
    /\ ret.op = "call_temperature"
    /\ ret' = [op |-> "hyde_temperatures", provider |-> ret.provider,
               temperature |-> ret.temperature, out |-> ret.out, hydeOk |-> ret.hydeOk,
               value |-> hyde_temperatures(ret.provider, openai_client, ret.temperature,
                                           ret.out, ret.hydeOk)]
    /\ UNCHANGED <<db, memory_cache, nextMsgId, embedder, openai_client, client_model, req>>

InitHyde ==
    /\ db = [t \in Threads |-> NoDoc]
    /\ memory_cache = <<>>
    /\ nextMsgId = 0
    /\ embedder = TRUE
    /\ openai_client \in BOOLEAN
    /\ client_model = config_model
    /\ req = [s \in Slots |-> IdleReq]
    /\ ret \in HydeCalls \cup ContextualCalls \cup TemperatureCalls

NextHyde ==
    \/ GenerateHydeResponse
    \/ GenerateContextualResponse
    \/ GenerateHydeTemperatures

SpecHyde == InitHyde /\ [][NextHyde]_vars

(***************************************************************************)
(* Properties                                                              *)
(***************************************************************************)
StoredNothing(t) ==
    /\ db[t].messages = <<>>
    /\ t \notin CacheKeys(memory_cache) \/ CacheGet(memory_cache, t) = <<>>

C2_ProcessQueryOnEmptyThread ==
    [][\A s \in SpecSlots :
         (req[s].pc = "idle" /\ req'[s].pc # "idle" /\ StoredNothing(req'[s].thread_id))
         => /\ req'[s].classification.query_type = NEW_TOPIC
            /\ req'[s].classification.confidence = Scale]_vars

\* C1: every successful process_query call appends exactly one message to its
\* thread, in the durable document and in the cache entry of the thread, and
\* the stored response is the chosen text: the query_A response for a
\* NEW_TOPIC query, the direct response otherwise.  No message of the memory
\* store (cache or durable document) carries the query_B or query_C text or
\* a reframed question.
ChosenKeys == {"query_A", "contextual"}
CleanMessage(m) ==
    /\ m.ai_response.key \in ChosenKeys
    /\ m.ai_response.kind \in {"llm", "ollama_error", "apology_single"}
    /\ (m.query_type = NEW_TOPIC) <=> (m.ai_response.key = "query_A")
CleanStore ==
    /\ \A t \in Threads : \A i \in 1..Len(db[t].messages) : CleanMessage(db[t].messages[i])
    /\ \A k \in 1..Len(memory_cache) : \A i \in 1..Len(memory_cache[k][2]) :
          CleanMessage(memory_cache[k][2][i])
CachedOf(c, t) == IF t \in CacheKeys(c) THEN CacheGet(c, t) ELSE <<>>
MessageIds(messages) == [i \in 1..Len(messages) |-> messages[i].message_id]
\* the history the call works on: the cache entry of the thread or, for a
\* thread that is not cached, the last ten messages of its document
HistoryRead(t) ==
    IF t \in CacheKeys(memory_cache) THEN CacheGet(memory_cache, t)
    ELSE LastN(db[t].messages, 10)
ChosenText(result) ==
    IF result.query_type = NEW_TOPIC THEN result.hyde_responses["query_A"]
    ELSE result.direct_response
Completes(s) == req[s].pc # "responded" /\ req'[s].pc = "responded"
C1_OneCleanMessagePerCall ==
    [][/\ CleanStore'
       /\ \A s \in SpecSlots : (Completes(s) /\ ~req'[s].result.error) =>
            LET t == req'[s].thread_id
                result == req'[s].result
                stored == db'[t].messages
            IN  /\ Len(stored) = Len(db[t].messages) + 1
                /\ SubSeq(stored, 1, Len(stored) - 1) = db[t].messages
                /\ stored[Len(stored)].message_id = result.message_id
                /\ stored[Len(stored)].user_query = req'[s].query
                /\ stored[Len(stored)].ai_response = ChosenText(result)
                /\ \A u \in Threads \ {t} : db'[u] = db[u]
                /\ t \in CacheKeys(memory_cache') =>
                      /\ MessageIds(CachedOf(memory_cache', t))
                            = Append(MessageIds(HistoryRead(t)), result.message_id)
                      /\ CachedOf(memory_cache', t)[Len(CachedOf(memory_cache', t))].ai_response
                            = ChosenText(result)
                /\ \A u \in CacheKeys(memory_cache') \ {t} :
                      CachedOf(memory_cache', u) = CachedOf(memory_cache, u)]_vars

C1_Witness ==
    \E s \in SpecSlots :
        /\ req[s].pc = "responded"
        /\ ~req[s].result.error
        /\ req[s].result.query_type = NEW_TOPIC
        /\ req[s].result.hyde_responses["query_B"].kind = "llm"
        /\ LET stored == db[req[s].thread_id].messages
           IN  /\ stored # <<>>
               /\ stored[Len(stored)].ai_response = req[s].result.hyde_responses["query_A"]

\* C3: a process_query call with the query "I don't understand" on a thread
\* that already holds a stored exchange returns CLARIFICATION and
\* context_messages_used = 2.
C3_DontUnderstandIsClarification ==
    \A s \in SpecSlots :
        (/\ req[s].pc = "responded"
         /\ req[s].query = QDontUnderstand
         /\ req[s].had_history
         /\ ~req[s].result.error)
        => /\ req[s].result.query_type = CLARIFICATION
           /\ req[s].result.context_messages_used = 2

HydeKeys == {"query_A", "query_B", "query_C"}
C6_ThreeKeys ==
    ret.op = "generate_hyde_response" => DOMAIN ret.value.responses = HydeKeys

C6_Witness ==
    /\ ret.op = "generate_hyde_response"
    /\ ret.out = <<"num", "short">>
    /\ ret.hydeOk /\ ~ret.genOk[2]
    /\ DOMAIN ret.value.responses = HydeKeys

\* C7: when the provider fails on exactly one of the three generation calls,
\* the failing key holds an apology string and the other two keys hold the
\* provider's normal text, for either provider.
UsableProvider(provider) ==
    \/ NormalizeProvider(provider) = "ollama"
    \/ NormalizeProvider(provider) = "openai" /\ openai_client
C7_OneFailureApologises ==
    (/\ ret.op = "generate_hyde_response"
     /\ UsableProvider(ret.provider)
     /\ ret.hydeOk
     /\ Cardinality({i \in 1..3 : ~ret.genOk[i]}) = 1)
    => /\ DOMAIN ret.value.responses = HydeKeys
       /\ \A i \in 1..3 :
             ret.value.responses[question_keys[i]].kind
                \in (IF ret.genOk[i] THEN {"llm"} ELSE ApologyKinds)

\* C8: get_conversation_history(thread, limit) returns the last
\* min(limit, n) messages of the durable message list, oldest first.
DurableSuffix(t, k) ==
    LET stored == db[t].messages
        n == Len(stored)
        size == Min(k, n)
    IN  [i \in 1..size |-> stored[n - size + i].message_id]
C8_CacheReadsEqualDurableReads ==
    ret.op = "get_conversation_history"
    => MessageIds(ret.value) = DurableSuffix(ret.thread, ret.limit)

\* C9: for a thread with n stored messages get_context_for_query returns the
\* most recent 0 (NEW_TOPIC), min(2, n) (CLARIFICATION), min(4, n)
\* (RELATED_TOPIC) or min(6, n) (FOLLOW_UP) messages.
WindowOf(query_type) ==
    CASE query_type = NEW_TOPIC -> 0
      [] query_type = CLARIFICATION -> 2
      [] query_type = RELATED_TOPIC -> 4
      [] query_type = FOLLOW_UP -> 6
C9_ContextWindowSizes ==
    ret.op = "get_context_for_query"
    => MessageIds(ret.value) = DurableSuffix(ret.thread, WindowOf(ret.query_type))

\* C10 as stated: a query with history and thread id that matches no
\* follow-up and no new-topic pattern and is no clarification request gets
\* FOLLOW_UP with confidence 0.3 and context weight 0.5 for every semantic
\* score.
Ambiguous(call) ==
    /\ call.op = "classify_query"
    /\ call.history # <<>> /\ call.thread_id # NoThread
    /\ call.fault # "search"
    /\ follow_up_score_of[call.query] = 0
    /\ new_topic_score_of[call.query] = 0
    /\ clarification_score_of[call.query] <= Tenths(3)
C10_Original ==
    Ambiguous(ret)
    => /\ ret.value.query_type = FOLLOW_UP
       /\ ret.value.confidence = Tenths(3)
       /\ ret.value.context_weight = Tenths(5)

\* C10 amended: such a query is always FOLLOW_UP with context; it gets the
\* default (confidence 0.3, weight 0.5) when 0.4 x semantic score does not
\* exceed the similarity threshold 0.25, and confidence 0.4 x semantic score
\* with weight 0.8 when it does.
SemanticOf(call) ==
    IF embedder /\ call.fault # "encode" THEN call.sem * (Scale \div 1000) ELSE 0
C10_DefaultUnlessSemanticallyClose ==
    Ambiguous(ret)
    => /\ ret.value.query_type = FOLLOW_UP
       /\ ret.value.should_use_context
       /\ IF (4 * SemanticOf(ret)) \div 10 > similarity_threshold
          THEN /\ ret.value.confidence = (4 * SemanticOf(ret)) \div 10
               /\ ret.value.context_weight = Tenths(8)
          ELSE /\ ret.value.confidence = Tenths(3)
               /\ ret.value.context_weight = Tenths(5)

C10_Witness ==
    /\ Ambiguous(ret)
    /\ ret.query = QWeather
    /\ embedder /\ ret.sem = 625 /\ ret.fault = "none"
    /\ ret.value.confidence = Tenths(3)

\* C11: with non-empty history and a thread id classify_query returns the
\* row of the priority-ordered decision table that the pattern match counts
\* and the semantic score select: CLARIFICATION (weight 0.9) if the
\* clarification score exceeds 0.3; else, if 0.6 x follow-up + 0.4 x
\* semantic exceeds the similarity threshold, FOLLOW_UP (weight 0.8) when
\* the semantic score exceeds 0.4 and RELATED_TOPIC (weight 0.6) when not;
\* else NEW_TOPIC without context if the new-topic score exceeds 0.4; else
\* FOLLOW_UP with confidence 0.3.  The confidence lies in 0..1 and
\* should_use_context is false exactly for NEW_TOPIC.
Matches(q, patterns) ==
    Cardinality({k \in 1..Len(patterns) : PatternSearch(patterns[k], q)})
clarification_matches_of == [q \in Queries |-> Matches(q, clarification_patterns)]
follow_up_matches_of == [q \in Queries |-> Matches(q, follow_up_patterns)]
new_topic_matches_of == [q \in Queries |-> Matches(q, new_topic_indicators)]
TableRow(call) ==
    LET c == (clarification_matches_of[call.query] * Scale) \div 4
        f == (follow_up_matches_of[call.query] * Scale) \div 11
        n == (new_topic_matches_of[call.query] * Scale) \div 5
        s == SemanticOf(call)
        combined == (6 * f + 4 * s) \div 10
    IN  IF c > Tenths(3) THEN [type |-> CLARIFICATION, weight |-> Tenths(9)]
        ELSE IF combined > (25 * Scale) \div 100
        THEN IF s > Tenths(4) THEN [type |-> FOLLOW_UP, weight |-> Tenths(8)]
             ELSE [type |-> RELATED_TOPIC, weight |-> Tenths(6)]
        ELSE IF n > Tenths(4) THEN [type |-> NEW_TOPIC, weight |-> 0]
        ELSE [type |-> FOLLOW_UP, weight |-> Tenths(5)]
C11_DecisionTable ==
    (/\ ret.op = "classify_query"
     /\ ret.history # <<>> /\ ret.thread_id # NoThread
     /\ ret.fault # "search")
    => /\ ret.value.query_type = TableRow(ret).type
       /\ ret.value.context_weight = TableRow(ret).weight
       /\ TableRow(ret).weight = Tenths(5) => ret.value.confidence = Tenths(3)
       /\ ret.value.confidence >= 0 /\ ret.value.confidence <= Scale
       /\ ret.value.should_use_context <=> ret.value.query_type # NEW_TOPIC

C11_Witness ==
    /\ ret.op = "classify_query"
    /\ ret.history # <<>> /\ ret.thread_id # NoThread
    /\ embedder /\ ret.sem = 200 /\ ret.fault = "none"
    /\ new_topic_matches_of[ret.query] = 3
    /\ ret.value.query_type = NEW_TOPIC
    /\ ret.value.confidence = Tenths(6)
    /\ ~ret.value.should_use_context

\* C12 as stated: whenever an internal step of classify_query throws
\* (pattern matching, embedding, similarity computation) the call returns
\* NEW_TOPIC with confidence 0.1, no context and the error in its reasoning.
Throws(call) ==
    /\ call.op = "classify_query"
    /\ call.history # <<>> /\ call.thread_id # NoThread
    /\ \/ call.fault = "search"
       \/ call.fault = "encode" /\ embedder
SafeFallback(value) ==
    /\ value.query_type = NEW_TOPIC
    /\ value.confidence = Tenths(1)
    /\ ~value.should_use_context
    /\ value.reasoning = "classification_error"
C12_Original ==
    Throws(ret) => SafeFallback(ret.value)

\* C12 amended: classify_query always returns a classification.  An
\* exception of the pattern matching gives the safe fallback (NEW_TOPIC,
\* confidence 0.1, no context, error in the reasoning); an exception of the
\* embedding or of the similarity computation is absorbed and the query is
\* classified by the decision table with semantic score 0.
C12_FallbackOrLexicalOnly ==
    Throws(ret) =>
        /\ ret.value.query_type \in QueryType
        /\ IF ret.fault = "search" THEN SafeFallback(ret.value)
           ELSE /\ ret.value.reasoning # "classification_error"
                /\ SemanticOf(ret) = 0
                /\ ret.value.query_type = TableRow(ret).type
                /\ ret.value.context_weight = TableRow(ret).weight

C12_Witness ==
    /\ Throws(ret)
    /\ ret.fault = "encode" /\ ret.sem = 800
    /\ ret.query = QWeather
    /\ ret.value.query_type = FOLLOW_UP
    /\ ret.value.confidence = Tenths(3)

\* C13: when the durable save fails inside add_interaction, process_query
\* fails with that error: the call does not hand a result to its caller.
C13_PersistenceErrorPropagates ==
    \A s \in SpecSlots : req[s].caught = "save" => req[s].pc # "responded"

\* C14: a call that names a provider which cannot be used (openai without a
\* configured client, an unsupported tag) fails with the configuration
\* error: it returns no successful result and persists no message.
Persisted(message_id) ==
    \E t \in Threads : \E i \in 1..Len(db[t].messages) :
        db[t].messages[i].message_id = message_id
C14_ConfigurationErrorFails ==
    \A s \in SpecSlots :
        (req[s].pc = "responded" /\ ~UsableProvider(req[s].provider))
        => /\ req[s].result.error
           /\ ~Persisted(req[s].result.message_id)

\* C15: when the LLM call of the direct branch fails, for either provider,
\* generate_contextual_response returns an apology text as the response
\* (never the raw error text) and its metadata carries an error entry.
C15_DirectFallbackApologises ==
    (/\ ret.op = "generate_contextual_response"
     /\ UsableProvider(ret.provider)
     /\ ~ret.callOk)
    => /\ ret.value.response.kind \in ApologyKinds
       /\ ret.value.metadata.error

\* C16: every result process_query returns, the error result included,
\* carries the three-keyed hyde_responses exactly when its query_type is
\* NEW_TOPIC and a single direct_response exactly when it is not.
C16_PayloadFollowsQueryType ==
    \A s \in SpecSlots : req[s].pc = "responded" =>
        LET result == req[s].result
        IN  /\ (result.has_hyde /\ DOMAIN result.hyde_responses = HydeKeys)
                  <=> result.query_type = NEW_TOPIC
            /\ result.has_direct <=> result.query_type # NEW_TOPIC

\* C17: the three generation calls of the exploratory branch are issued
\* concurrently: while one of them is in flight the next one can be started
\* before it returns; no failed call cancels the others and the call has
\* all three results when it continues.
C17_GenerationCallsOverlap ==
    \A s \in SpecSlots :
        /\ (/\ req[s].pc = "gathering"
            /\ req[s].running # "none"
            /\ Len(req[s].results) + 1 < Len(req[s].tasks))
           => ENABLED StartTask(s)
        /\ (req[s].pc = "responded" /\ req[s].tasks # <<>>)
           => Len(req[s].results) = Len(req[s].tasks)

\* C18: every process_query call ends in the state "responded" with a
\* result for its caller, whatever fails in the classifier, the provider or
\* the store, and it has no retry loop: a NEW_TOPIC call makes one reframing
\* call and at most three generation calls (three when it responds), every
\* other call makes exactly one generation call and no reframing call.
CallBudget(s) ==
    req[s].pc # "idle" =>
        IF req[s].classification.query_type = NEW_TOPIC
        THEN /\ req[s].reframing_calls = 1
             /\ req[s].generation_calls <= 3
             /\ req[s].pc = "responded" => req[s].generation_calls = 3
        ELSE /\ req[s].reframing_calls = 0
             /\ req[s].generation_calls = 1
             /\ req[s].pc = "responded"
C18_AlwaysResponds ==
    /\ \A s \in SpecSlots : (req[s].pc = "gathering") ~> (req[s].pc = "responded")
    /\ [](\A s \in SpecSlots : CallBudget(s))

C18_Witness ==
    \E s \in SpecSlots :
        /\ req[s].pc = "responded"
        /\ req[s].caught = "save"
        /\ req[s].result.error
        /\ req[s].generation_calls = 3
        /\ req[s].results[1].response.kind # "llm"

\* C19: a failed durable write leaves the memory store as it was before the
\* add_interaction call: afterwards get_conversation_history does not hold
\* the message that failed to persist and thread_exists answers as before.
C19_FailedWriteLeavesStore ==
    [][(/\ ret'.op = "add_interaction"
        /\ nextMsgId' = nextMsgId + 1
        /\ ~ret'.ok)
       => LET t == ret'.thread
              history == get_conversation_history(memory_cache', db', t, 10).value
          IN  /\ db' = db
              /\ memory_cache' = memory_cache
              /\ \A i \in 1..Len(history) : history[i].message_id # ret'.value.message_id
              /\ thread_exists(memory_cache', db', t) = thread_exists(memory_cache, db, t)]_vars

\* C20: after cleanup_old_threads every thread created before the cutoff
\* is gone for all readers (thread_exists is false and
\* get_conversation_history is empty, also for a thread the process has
\* read or written before), and every younger thread keeps its messages.
C20_SweepRemovesOldThreads ==
    [][(ret'.op = "cleanup_old_threads" /\ ret' # ret)
       => \A t \in Threads :
            IF db[t].exists /\ db[t].created_at < ret'.cutoff
            THEN /\ ~thread_exists(memory_cache', db', t)
                 /\ get_conversation_history(memory_cache', db', t, 10).value = <<>>
            ELSE db'[t] = db[t]]_vars


\* C21: the history cache is bounded: after every completed add_interaction
\* or get_conversation_history call the cache holds at most cache_max_size
\* threads.
C21_CacheBounded ==
    [][ret'.op \in {"add_interaction", "get_conversation_history"}
       => Len(memory_cache') <= cache_max_size]_vars


\* C22: the history cache is time-boxed: a read of a thread whose cache
\* entry is older than cache_max_age_minutes is not served from the cache
\* but returns what a load from durable storage returns.
C22_ExpiredEntryReloaded ==
    [][(/\ ret'.op = "get_conversation_history"
        /\ ret'.thread \in CacheKeys(memory_cache)
        /\ ret'.minutes > cache_max_age_minutes)
       => ret'.value = _load_messages_from_db(db, ret'.thread, ret'.limit)]_vars


\* C23: analyze_query_relevance returns score 0 and is_continuation false
\* whenever there is no prior context (no thread id given, or the thread's
\* memory holds no messages), for every query.
C23_NoContextScoresZero ==
    (/\ ret.op = "analyze_query_relevance"
     /\ (ret.thread_id = NoThread \/ ret.messages = <<>>))
    => (ret.value.score = 0 /\ ~ret.value.is_continuation)

C23_Witness ==
    /\ ret.op = "analyze_query_relevance"
    /\ ret.query = QWhatIsML
    /\ ret.thread_id # NoThread
    /\ ret.messages = <<>>
    /\ ret.memoryOk /\ ret.encodeOk /\ ret.sem = 1000
    /\ ret.value.score = 0

\* with context the same call can be a continuation
C23_ContinuationReachable ==
    /\ ret.op = "analyze_query_relevance"
    /\ ret.value.is_continuation


\* C24: with a non-empty history and no thread id argument, classify_query
\* yields CLARIFICATION for "I don't understand" and FOLLOW_UP for "Tell me
\* more about that", and is_follow_up_query returns true for both.
C24_ContinuationsWithoutThreadId ==
    /\ (/\ ret.op = "classify_query"
        /\ ret.thread_id = NoThread
        /\ ret.history # <<>>
        /\ ret.fault = "none")
       => /\ ret.query = QDontUnderstand => ret.value.query_type = CLARIFICATION
          /\ ret.query = QTellMeMore => ret.value.query_type = FOLLOW_UP
    /\ (/\ ret.op = "is_follow_up_query"
        /\ ret.history # <<>>
        /\ ret.fault = "none"
        /\ ret.query \in {QDontUnderstand, QTellMeMore})
       => ret.value


IsPrefix(a, b) == Len(a) <= Len(b) /\ SubSeq(b, 1, Len(a)) = a

\* C25: for any interleaving of concurrent process_query calls, every call
\* that has returned without error has its interaction in the durable list
\* of its thread, a durable list only grows at its end (no earlier message
\* is modified or dropped), and message_count is the length of the list.
C25_ConcurrentCallsKeepAllMessages ==
    /\ [](\A s \in ConcSlots :
            (req[s].pc = "responded" /\ ~req[s].result.error)
            => \E i \in 1..Len(db[req[s].thread_id].messages) :
                 db[req[s].thread_id].messages[i].message_id = req[s].result.message_id)
    /\ [](\A t \in Threads : db[t].message_count = Len(db[t].messages))
    /\ [][\A t \in Threads : IsPrefix(db[t].messages, db'[t].messages)]_vars

\* three calls on one thread have returned without error; the call in slot 1
\* read an empty history and stored the second message, so it was suspended
\* while the call that stored the first message ran
C25_Witness ==
    /\ req[1].pc = "responded" /\ req[2].pc = "responded"
    /\ ~req[1].result.error /\ ~req[2].result.error
    /\ req[1].thread_id = req[2].thread_id
    /\ ~req[1].had_history /\ req[1].result.message_id = 2
    /\ req[2].had_history /\ req[2].result.message_id = 3
    /\ Len(db[req[1].thread_id].messages) = 3


\* C26: once a thread document has an owning user id, no later process_query
\* call changes it to a different value.
C26_OwnerNeverChanges ==
    [][\A t \in Threads :
         (db[t].exists /\ db[t].user_id # NoUser) => db'[t].user_id = db[t].user_id]_vars


\* C27: a generation call for a request that names no model is served by
\* the provider's configured default model whatever earlier requests asked
\* for, and the model recorded in the response metadata is the model the
\* provider call used.
C27_DefaultModelWhenNoneRequested ==
    (ret.op = "_generate_single_response" /\ ret.called)
    => /\ ret.model = NoModel => ret.used_model = config_model[ret.provider]
       /\ ~ret.error => ret.metadata_model = ret.used_model


\* the indices of the lines of the given kinds, in order
RECURSIVE IndicesOf(_, _, _)
IndicesOf(lines, kinds, i) ==
    IF i > Len(lines) THEN <<>>
    ELSE IF lines[i] \in kinds THEN <<i>> \o IndicesOf(lines, kinds, i + 1)
    ELSE IndicesOf(lines, kinds, i + 1)

\* C28: when the reframing output holds exactly three numbered items, the
\* questions of the exploratory branch are those three items in that order,
\* whatever other lines surround them.
C28_ThreeNumberedItemsAreTheQuestions ==
    (/\ ret.op = "generate_hyde_response"
     /\ UsableProvider(ret.provider)
     /\ ret.hydeOk
     /\ Len(IndicesOf(ret.out, {"num", "numempty"}, 1)) = 3
     /\ Len(IndicesOf(ret.out, {"num"}, 1)) = 3)
    => LET items == IndicesOf(ret.out, {"num"}, 1)
       IN  ret.value.metadata.questions_generated
              = [i \in 1..3 |-> Question("line", items[i])]

\* C29: when the LLM call that produces the reframed questions fails, the
\* three questions of the exploratory branch are the query-specific fallback
\* questions, never text derived from the failure or apology message.
C29_FailedReframingUsesFallbackQuestions ==
    (/\ ret.op = "generate_hyde_response"
     /\ UsableProvider(ret.provider)
     /\ ~ret.hydeOk)
    => /\ ret.value.metadata.questions_generated = FallbackQuestions
       /\ \A i \in 1..3 :
            ret.value.metadata.questions_generated[i].src
               \notin ApologyKinds \cup {"ollama_error"}


\* C30: when the inbound temperature lies in the accepted range 0 to 2,
\* every temperature handed to a provider call of the request (the
\* reframing call and the three generation calls) lies in that range.
C30_TemperaturesStayInRange ==
    (/\ ret.op = "hyde_temperatures"
     /\ ret.temperature \in Temperatures)
    => \A i \in 1..Len(ret.value) : ret.value[i] \in Temperatures

=============================================================================
